---------------------------- MODULE Spec2Model ----------------------------
(***************************************************************************)
(* A model of the dense matrix engine of package advmath (GoAdvMath).     *)
(*                                                                         *)
(* A Matrix is the record [NumberOfRows, NumberOfColumns, M] of the Go    *)
(* struct; M is the flat row-major buffer, a sequence indexed from 1 (Go  *)
(* offset k is M[k + 1]).                                                  *)
(*                                                                         *)
(* float64 values are modelled as extended rationals <<n, d>>:            *)
(*   d > 0, gcd(|n|, d) = 1   the finite value n / d                      *)
(*   <<1, 0>>, <<-1, 0>>      +Inf and -Inf                                *)
(*   <<0, 0>>                 NaN                                          *)
(* The arithmetic is IEEE-754's on these values with two abstractions:    *)
(* finite results are exact (no rounding, no overflow) and zero carries   *)
(* no sign (a zero divisor behaves as +0).  The engine never produces a   *)
(* negative-zero divisor from inputs that hold none, and a sign of zero   *)
(* never decides a comparison, so equalities of the model are equalities  *)
(* "within tolerance" of the program.                                      *)
(*                                                                         *)
(* Storage.  A Go slice is a window on a backing array.  The backing      *)
(* arrays the last call allocated are heap[1], heap[2], ...; array 0 is    *)
(* the backing array of A.M.  out lists, in the order returned, the slice  *)
(* headers [array, low, high] of what the last call returned: the M of    *)
(* each *Matrix, or the []float64 itself.                                  *)
(***************************************************************************)
EXTENDS Integers, Sequences, FiniteSets, TLC

VARIABLES
  A, B,     \* the matrices a caller holds: the receiver and the argument
  ret,      \* the last call and the values it returned
  args,     \* the integer arguments of the last call
  heap,     \* the backing arrays allocated by the last call
  out,      \* the slice headers of the values the last call returned
  history,  \* the SetRow calls made so far, <<rowNumber, row>> each
  calls,    \* the number of writes made after the last call returned
  newton    \* the local variables of a call of Newton

vars == <<A, B, ret, args, heap, out, history, calls, newton>>

(***************************************************************************)
(* Bounds of the model.                                                    *)
(***************************************************************************)
\* the longest buffer: every matrix has NumberOfRows * NumberOfColumns <= MaxLen
MaxLen == 12
\* entries of enumerated matrices are 0..MaxVal, scalars are -MaxVal..MaxVal
MaxVal == 1
\* the longest buffer of the matrices whose storage is followed
MaxCells == 9
\* the most writes made after a call returned
MaxWrites == 2
\* the most SetRow calls made on one matrix
MaxCalls == 2
\* the largest number of iterations asked of Newton
MaxIter == 3

(***************************************************************************)
(* float64                                                                 *)
(***************************************************************************)
Abs(x) == IF x < 0 THEN -x ELSE x

Sign(x) == IF x < 0 THEN -1 ELSE IF x > 0 THEN 1 ELSE 0

RECURSIVE GCD(_, _)
GCD(x, y) == IF y = 0 THEN x ELSE GCD(y, x % y)

\* the value n / d (d >= 0) in normal form
Norm(n, d) ==
  IF d = 0 THEN <<Sign(n), 0>>
  ELSE IF n = 0 THEN <<0, 1>>
  ELSE LET g == GCD(Abs(n), d) IN <<n \div g, d \div g>>

Float(i) == <<i, 1>>

Zero == Float(0)

One == Float(1)

NaN == <<0, 0>>

IsNaN(x) == x = NaN

IsInf(x) == x[2] = 0 /\ x[1] # 0

fNeg(x) == <<-x[1], x[2]>>

\* x + y: NaN is absorbing, Inf + (-Inf) is NaN, Inf + finite is Inf
fAdd(x, y) ==
  IF IsNaN(x) \/ IsNaN(y) THEN NaN
  ELSE IF IsInf(x) THEN (IF IsInf(y) /\ y # x THEN NaN ELSE x)
  ELSE IF IsInf(y) THEN y
  ELSE Norm(x[1] * y[2] + y[1] * x[2], x[2] * y[2])

fSub(x, y) == fAdd(x, fNeg(y))

\* x * y: NaN is absorbing, Inf * 0 is NaN, otherwise the signs multiply
fMul(x, y) ==
  IF IsNaN(x) \/ IsNaN(y) THEN NaN
  ELSE Norm(x[1] * y[1], x[2] * y[2])

\* 1 / y: 1/0 is +Inf, 1/Inf is 0
fInv(y) ==
  IF IsNaN(y) THEN NaN
  ELSE IF y[1] = 0 THEN <<1, 0>>
  ELSE <<Sign(y[1]) * y[2], Abs(y[1])>>

\* x / y: 0/0 and Inf/Inf are NaN, x/0 is Inf with the sign of x
fDiv(x, y) == fMul(x, fInv(y))

\* math.Abs
fAbs(x) == <<Abs(x[1]), x[2]>>

\* x <= y: false when either is NaN
fLeq(x, y) ==
  IF IsNaN(x) \/ IsNaN(y) THEN FALSE
  ELSE IF IsInf(x) THEN x[1] < 0 \/ x = y
  ELSE IF IsInf(y) THEN y[1] > 0
  ELSE x[1] * y[2] <= y[1] * x[2]

\* the integer square root of a perfect square
ISqrt(k) == CHOOSE r \in 0..k : r * r = k

\* math.Sqrt, on the values whose root is a float64 of the model: the
\* quotients of two perfect squares
Sqrt(x) == <<ISqrt(x[1]), ISqrt(x[2])>>

(***************************************************************************)
(* error.go                                                                *)
(***************************************************************************)
errorNonSquareMatrix == 2

errorCannotMultiply == 4

errorCannotAdd == 5

errorNotInversible == 6

(***************************************************************************)
(* What a call returns.  A *Matrix is <<>> (nil) or <<x>>; err is {} (nil)  *)
(* or {code} (a *MathError with that code).  panicked: the call ended in a *)
(* run-time panic (index out of range) and returned nothing.               *)
(***************************************************************************)
Deref(p) == p[1]

Returns(matrix, l, u, val, err) ==
  [panicked |-> FALSE, err |-> err, M |-> matrix, L |-> l, U |-> u, val |-> val]

RetMatrix(x) == Returns(<<x>>, <<>>, <<>>, Zero, {})

RetError(code) == Returns(<<>>, <<>>, <<>>, Zero, {code})

RetValue(v) == Returns(<<>>, <<>>, <<>>, v, {})

RetPanic ==
  [panicked |-> TRUE, err |-> {}, M |-> <<>>, L |-> <<>>, U |-> <<>>, val |-> Zero]

(***************************************************************************)
(* Construction and element access                                         *)
(***************************************************************************)
NewMatrix(rows, cols) ==
  [NumberOfRows |-> rows, NumberOfColumns |-> cols,
   M |-> [k \in 1..(rows * cols) |-> Zero]]

NewIdentity(rows) ==
  [NumberOfRows |-> rows, NumberOfColumns |-> rows,
   M |-> [k \in 1..(rows * rows) |->
            IF (k - 1) \div rows = (k - 1) % rows THEN One ELSE Zero]]

IsSquare(m) == m.NumberOfColumns = m.NumberOfRows

Get(m, row, column) == m.M[row * m.NumberOfColumns + column + 1]

Set(m, row, column, value) ==
  [m EXCEPT !.M[row * m.NumberOfColumns + column + 1] = value]

\* the []float64 GetRow makes and fills
GetRow(m, rowNumber) ==
  [cols \in 1..m.NumberOfColumns |-> m.M[rowNumber * m.NumberOfColumns + (cols - 1) + 1]]

GetColumn(m, colNumber) ==
  [rows \in 1..m.NumberOfRows |-> m.M[(rows - 1) * m.NumberOfColumns + colNumber + 1]]

\* a faulty SetRowOffset: the row number is not scaled by the row length
SetRowOffsetUnscaled(m, rowNumber, cols) == rowNumber + cols

\* the offset in m.M that SetRow writes row[cols] to
SetRowOffset(m, rowNumber, cols) == rowNumber * m.NumberOfColumns + cols

\* m after the loop of SetRow: the offsets written take row[cols], the last
\* write to an offset wins
SetRow(m, rowNumber, row) ==
  [m EXCEPT !.M =
     [k \in 1..Len(m.M) |->
        LET hits == {cols \in 0..(m.NumberOfColumns - 1) :
                       SetRowOffset(m, rowNumber, cols) + 1 = k}
        IN IF hits = {} THEN m.M[k]
           ELSE row[(CHOOSE c \in hits : \A d \in hits : d <= c) + 1]]]

\* the bounds low:high of the slice expression of SubMatrix
SubMatrixLow(m, row, col) == row * m.NumberOfColumns + col

SubMatrixHigh(m, row, col, numberRows, numberCols) ==
  SubMatrixLow(m, row, col) + numberRows * m.NumberOfColumns + numberCols

\* m.M[low:high] panics when high exceeds the capacity of m.M, which is the
\* length make gave it; the matrix returned keeps the slice as its M
SubMatrix(m, row, col, numberRows, numberCols) ==
  LET low == SubMatrixLow(m, row, col)
      high == SubMatrixHigh(m, row, col, numberRows, numberCols)
  IN IF high > Len(m.M) THEN RetPanic
     ELSE RetMatrix([NumberOfRows |-> numberRows, NumberOfColumns |-> numberCols,
                     M |-> SubSeq(m.M, low + 1, high)])

(***************************************************************************)
(* Multiply                                                                *)
(***************************************************************************)
\* a faulty MultiplyCell: `=` for `+=`, the cell keeps the last product only
MultiplyCellOverwritten(m, in, i, j, k) ==
  IF k = 0 THEN Zero
  ELSE fMul(m.M[i * m.NumberOfColumns + (k - 1) + 1],
            in.M[(k - 1) * in.NumberOfColumns + j + 1])

\* result.M[i*cols+j] after the k loop has run k times on a zero cell
RECURSIVE MultiplyCell(_, _, _, _, _)
MultiplyCell(m, in, i, j, k) ==
  IF k = 0 THEN Zero
  ELSE fAdd(MultiplyCell(m, in, i, j, k - 1),
            fMul(m.M[i * m.NumberOfColumns + (k - 1) + 1],
                 in.M[(k - 1) * in.NumberOfColumns + j + 1]))

Multiply(m, in) ==
  IF m.NumberOfColumns # in.NumberOfRows THEN RetError(errorCannotMultiply)
  ELSE RetMatrix(
         [NumberOfRows |-> m.NumberOfRows, NumberOfColumns |-> in.NumberOfColumns,
          M |-> [t \in 1..(m.NumberOfRows * in.NumberOfColumns) |->
                   MultiplyCell(m, in, (t - 1) \div in.NumberOfColumns,
                                (t - 1) % in.NumberOfColumns, m.NumberOfColumns)]])

(***************************************************************************)
(* ScalarMultiply, Neg                                                     *)
(***************************************************************************)
\* the row/col loops, t = row * m.NumberOfColumns + col; a write past the
\* end of result.M panics
RECURSIVE ScalarMultiplyLoop(_, _, _, _)
ScalarMultiplyLoop(m, scal, result, t) ==
  IF t = m.NumberOfRows * m.NumberOfColumns THEN RetMatrix(result)
  ELSE LET row == t \div m.NumberOfColumns
           col == t % m.NumberOfColumns
           idx == row * result.NumberOfColumns + col
       IN IF idx >= Len(result.M) THEN RetPanic
          ELSE ScalarMultiplyLoop(m, scal,
                 [result EXCEPT !.M[idx + 1] = fMul(result.M[idx + 1], scal)], t + 1)

ScalarMultiply(m, scal) ==
  ScalarMultiplyLoop(m, scal, NewMatrix(m.NumberOfColumns, m.NumberOfRows), 0)

Neg(m) == ScalarMultiply(m, Float(-1))

(***************************************************************************)
(* Add, Subtract                                                           *)
(***************************************************************************)
RECURSIVE AddLoop(_, _, _, _)
AddLoop(m, in, result, t) ==
  IF t = m.NumberOfRows * m.NumberOfColumns THEN RetMatrix(result)
  ELSE LET row == t \div m.NumberOfColumns
           col == t % m.NumberOfColumns
           idx == row * result.NumberOfColumns + col
           mi  == row * m.NumberOfColumns + col
           ini == row * in.NumberOfColumns + col
       IN IF idx >= Len(result.M) \/ mi >= Len(m.M) \/ ini >= Len(in.M) THEN RetPanic
          ELSE AddLoop(m, in,
                 [result EXCEPT !.M[idx + 1] = fAdd(m.M[mi + 1], in.M[ini + 1])], t + 1)

\* a faulty SameShape: the rows are not compared
SameShapeColumnsOnly(m, in) == ~(in.NumberOfColumns # m.NumberOfColumns)

SameShape(m, in) ==
  ~(in.NumberOfColumns # m.NumberOfColumns \/ in.NumberOfRows # m.NumberOfRows)

Add(m, in) ==
  IF ~SameShape(m, in) THEN RetError(errorCannotAdd)
  ELSE AddLoop(m, in, NewMatrix(m.NumberOfColumns, m.NumberOfRows), 0)

Subtract(m, in) ==
  IF ~SameShape(m, in) THEN RetError(errorCannotAdd)
  ELSE LET neg == Neg(in)
       IN IF neg.panicked THEN RetPanic ELSE Add(m, Deref(neg.M))

(***************************************************************************)
(* Transpose                                                               *)
(***************************************************************************)
\* for k := 0; k < rows; k++ { ret.Set(k, k, m.Get(k, k)) }
RECURSIVE CopyDiagonal(_, _, _)
CopyDiagonal(m, result, k) ==
  IF k = 0 THEN result
  ELSE Set(CopyDiagonal(m, result, k - 1), k - 1, k - 1, Get(m, k - 1, k - 1))

\* the inner loop of the swap: j from i+1 to rows-1
RECURSIVE SwapRow(_, _, _, _)
SwapRow(m, result, i, j) ==
  IF j > m.NumberOfRows - 1 THEN result
  ELSE SwapRow(m, Set(Set(result, j, i, Get(m, i, j)), i, j, Get(m, j, i)), i, j + 1)

\* the outer loop of the swap: i from 0 to rows-2
RECURSIVE SwapAll(_, _, _)
SwapAll(m, result, i) ==
  IF i > m.NumberOfRows - 2 THEN result
  ELSE SwapAll(m, SwapRow(m, result, i, i + 1), i + 1)

\* a faulty CycleNext: rows and columns exchanged
CycleNextExchanged(m, j) ==
  (j % m.NumberOfColumns) * m.NumberOfRows + j \div m.NumberOfColumns

\* the index the cycle goes to from j
CycleNext(m, j) ==
  (j % m.NumberOfRows) * m.NumberOfColumns + j \div m.NumberOfRows

\* the second do-while of a start: ret.M[j] = m.M[i] (tmp = m.M[start] when
\* the cycle closes), then j = i, while j > start.  The first do-while only
\* counts the cycle into i and j, both overwritten before they are read.
RECURSIVE FollowCycle(_, _, _, _)
FollowCycle(m, result, start, j) ==
  LET i == CycleNext(m, j)
      tmp == m.M[start + 1]
      written == [result EXCEPT !.M[j + 1] = IF i = start THEN tmp ELSE m.M[i + 1]]
  IN IF i > start THEN FollowCycle(m, written, start, i) ELSE written

\* for start = 0; start <= int64(rows*cols-1); start++ : on an empty buffer
\* the unsigned rows*cols-1 wraps to 2^64-1 and int64 of it is -1, so the
\* bound is rows*cols-1 in every case
RECURSIVE AllCycles(_, _, _)
AllCycles(m, result, start) ==
  IF start > m.NumberOfRows * m.NumberOfColumns - 1 THEN result
  ELSE AllCycles(m, FollowCycle(m, result, start, start), start + 1)

nonSquareTranspose(m) ==
  AllCycles(m, NewMatrix(m.NumberOfColumns, m.NumberOfRows), 0)

Transpose(m) ==
  IF ~IsSquare(m) THEN RetMatrix(nonSquareTranspose(m))
  ELSE RetMatrix(SwapAll(m,
         CopyDiagonal(m, NewMatrix(m.NumberOfColumns, m.NumberOfRows), m.NumberOfRows), 0))

(***************************************************************************)
(* Trace                                                                   *)
(***************************************************************************)
\* trace after the loop has run `row` times (column == row throughout)
RECURSIVE TraceLoop(_, _)
TraceLoop(m, row) ==
  IF row = 0 THEN Zero ELSE fAdd(TraceLoop(m, row - 1), Get(m, row - 1, row - 1))

\* a faulty Trace: the square check is missing; the loop then reads past
\* the end of M when the matrix has more rows than columns
TraceUnchecked(m) ==
  IF m.NumberOfRows > m.NumberOfColumns THEN RetPanic
  ELSE RetValue(TraceLoop(m, m.NumberOfRows))

Trace(m) ==
  IF ~IsSquare(m) THEN RetError(errorNonSquareMatrix)
  ELSE RetValue(TraceLoop(m, m.NumberOfRows))

(***************************************************************************)
(* LUDecomposition                                                         *)
(***************************************************************************)
\* sum after `for j = 0; j < n; j++ { sum += l(a, j) * u(j, b) }`
RECURSIVE LUSum(_, _, _, _, _)
LUSum(l, u, a, b, n) ==
  IF n = 0 THEN Zero
  ELSE fAdd(LUSum(l, u, a, b, n - 1), fMul(Get(l, a, n - 1), Get(u, n - 1, b)))

\* "Upper Triangular": for k = i; k < n; k++ { u(i, k) = m(i, k) - sum }
RECURSIVE UpperRow(_, _, _, _, _)
UpperRow(m, l, u, i, k) ==
  IF k >= m.NumberOfColumns THEN u
  ELSE UpperRow(m, l, Set(u, i, k, fSub(Get(m, i, k), LUSum(l, u, i, k, i))), i, k + 1)

\* a faulty LowerEntry: the sum is not subtracted
LowerEntryWithoutSum(m, l, u, i, k) == fDiv(Get(m, k, i), Get(u, i, i))

\* L(k, i) for k # i
LowerEntry(m, l, u, i, k) ==
  fDiv(fSub(Get(m, k, i), LUSum(l, u, k, i, i)), Get(u, i, i))

\* "Lower Triangular": for k = i; k < n; k++ { l(i, i) = 1 or l(k, i) = ... }
RECURSIVE LowerColumn(_, _, _, _, _)
LowerColumn(m, l, u, i, k) ==
  IF k >= m.NumberOfColumns THEN l
  ELSE LowerColumn(m,
         IF i = k THEN Set(l, i, i, One) ELSE Set(l, k, i, LowerEntry(m, l, u, i, k)),
         u, i, k + 1)

\* for i = 0; i < n; i++: row i of U, then column i of L; yields <<l, u>>
RECURSIVE Decompose(_, _, _, _)
Decompose(m, l, u, i) ==
  IF i >= m.NumberOfColumns THEN <<l, u>>
  ELSE LET u2 == UpperRow(m, l, u, i, i)
           l2 == LowerColumn(m, l, u2, i, i)
       IN Decompose(m, l2, u2, i + 1)

LUDecomposition(m) ==
  IF ~IsSquare(m) THEN RetError(errorNonSquareMatrix)
  ELSE LET lu == Decompose(m, NewMatrix(m.NumberOfRows, m.NumberOfColumns),
                           NewMatrix(m.NumberOfRows, m.NumberOfColumns), 0)
       IN Returns(<<>>, <<lu[1]>>, <<lu[2]>>, Zero, {})

(***************************************************************************)
(* Determinant, determinantLU                                              *)
(***************************************************************************)
\* det after the loop has run `row` times: det = 1.0; det *= u(row, row)
RECURSIVE DiagonalProduct(_, _)
DiagonalProduct(u, row) ==
  IF row = 0 THEN One
  ELSE fMul(DiagonalProduct(u, row - 1), Get(u, row - 1, row - 1))

Determinant(m) ==
  IF ~IsSquare(m) THEN RetError(errorNonSquareMatrix)
  ELSE LET lu == LUDecomposition(m)
       IN IF lu.err # {} THEN RetError(CHOOSE c \in lu.err : TRUE)
          ELSE RetValue(DiagonalProduct(Deref(lu.U), m.NumberOfRows))

determinantLU(m) ==
  IF ~IsSquare(m) THEN RetError(errorNonSquareMatrix)
  ELSE LET lu == LUDecomposition(m)
       IN IF lu.err # {} THEN RetError(CHOOSE c \in lu.err : TRUE)
          ELSE Returns(<<>>, lu.L, lu.U,
                       DiagonalProduct(Deref(lu.U), m.NumberOfRows), {})

(***************************************************************************)
(* Inverse                                                                 *)
(***************************************************************************)
\* sum after `for j = 0; j < n; j++ { sum += l(i, j) * y(j, k) }`
RECURSIVE ForwardSum(_, _, _, _, _)
ForwardSum(l, y, i, k, n) ==
  IF n = 0 THEN Zero
  ELSE fAdd(ForwardSum(l, y, i, k, n - 1), fMul(Get(l, i, n - 1), Get(y, n - 1, k)))

\* for i = 1; i < rows; i++ { y(i, k) = (id(i, k) - sum) / l(i, i) }
RECURSIVE ForwardRows(_, _, _, _, _)
ForwardRows(l, id, y, k, i) ==
  IF i >= l.NumberOfRows THEN y
  ELSE ForwardRows(l, id,
         Set(y, i, k, fDiv(fSub(Get(id, i, k), ForwardSum(l, y, i, k, i)), Get(l, i, i))),
         k, i + 1)

\* "solve L*Y = I": for k = 0; k < cols; k++ { y.M[k] = id column k [0] / l(0,0); rows }
RECURSIVE ForwardColumns(_, _, _, _)
ForwardColumns(l, id, y, k) ==
  IF k >= y.NumberOfColumns THEN y
  ELSE ForwardColumns(l, id,
         ForwardRows(l, id,
           [y EXCEPT !.M[k + 1] = fDiv(GetColumn(id, k)[1], Get(l, 0, 0))], k, 1),
         k + 1)

\* sum2 after `for p = o + 1; p < n; p++ { sum2 += u(o, p) * x(p, c) }`
RECURSIVE BackwardSum(_, _, _, _, _)
BackwardSum(u, x, o, c, n) ==
  IF n <= o + 1 THEN Zero
  ELSE fAdd(BackwardSum(u, x, o, c, n - 1), fMul(Get(u, o, n - 1), Get(x, n - 1, c)))

\* for o = cols - 2; o >= 0; o-- { x(o, c) = (y(o, c) - sum2) / u(o, o) }
RECURSIVE BackwardRows(_, _, _, _, _)
BackwardRows(u, y, x, c, o) ==
  IF o < 0 THEN x
  ELSE BackwardRows(u, y,
         Set(x, o, c,
             fDiv(fSub(Get(y, o, c), BackwardSum(u, x, o, c, x.NumberOfRows)), Get(u, o, o))),
         c, o - 1)

\* "solve U*X = Y": for n = 0; n < cols; n++, on column c = cols - 1 - n
RECURSIVE BackwardColumns(_, _, _, _)
BackwardColumns(u, y, x, n) ==
  IF n >= x.NumberOfColumns THEN x
  ELSE LET c == x.NumberOfColumns - 1 - n
           last == Set(x, x.NumberOfRows - 1, c,
                       fDiv(GetColumn(y, c)[y.NumberOfRows],
                            Get(u, x.NumberOfRows - 1, x.NumberOfColumns - 1)))
       IN BackwardColumns(u, y, BackwardRows(u, y, last, c, x.NumberOfColumns - 2), n + 1)

\* det == 0.0: false for NaN
IsZeroDet(det) == det = Zero

Inverse(m) ==
  LET d == determinantLU(m)
  IN IF d.err # {} THEN RetError(CHOOSE c \in d.err : TRUE)
     ELSE IF IsZeroDet(d.val) THEN RetError(errorNotInversible)
     ELSE LET l == Deref(d.L)
              u == Deref(d.U)
              id == NewIdentity(m.NumberOfRows)
              y == ForwardColumns(l, id, NewMatrix(m.NumberOfRows, m.NumberOfColumns), 0)
          IN RetMatrix(BackwardColumns(u, y, NewMatrix(m.NumberOfRows, m.NumberOfColumns), 0))

(***************************************************************************)
(* solving.go and derivative.go: Newton and the derivative it uses.  An F  *)
(* is named by the Go expression of its body.                              *)
(***************************************************************************)
DefaultIterations == 1000

NewtonFailed == -1

\* f(x) for the functions handed to Newton
Apply(f, x) ==
  CASE f = "1" -> One
    [] f = "x-1" -> fSub(x, One)
    [] f = "x*x-1" -> fSub(fMul(x, x), One)

\* the central difference of f at t with the step sqrt(err)
Standard(t, f, err) ==
  LET h == Sqrt(err)
  IN fDiv(fSub(Apply(f, fAdd(t, h)), Apply(f, fSub(t, h))), fMul(Float(2), h))

\* x - f(x)/Standard(x, f, precision)
NewtonStep(x, f, precision) == fSub(x, fDiv(Apply(f, x), Standard(x, f, precision)))

\* math.Abs(x-previous) <= precision
NewtonStop(x, previous, precision) == fLeq(fAbs(fSub(x, previous)), precision)

\* the int returned once the loop was left with the counter at i
NewtonStatus(i, n) == IF i = n - 1 THEN NewtonFailed ELSE 0

(***************************************************************************)
(* The inputs: matrices as a caller builds them with NewMatrix and SetRow  *)
(***************************************************************************)
\* the shapes rows x cols of the inputs: at least one element, at most MaxLen
Shapes == {s \in (1..MaxLen) \X (1..MaxLen) : s[1] * s[2] <= MaxLen}

\* the rows x cols matrix holding base, base+1, ... in row-major order
Ramp(rows, cols, base) ==
  [NumberOfRows |-> rows, NumberOfColumns |-> cols,
   M |-> [k \in 1..(rows * cols) |-> Float(base + k - 1)]]

RampMatrices == {Ramp(s[1], s[2], base) : s \in Shapes, base \in 0..MaxVal}

\* every n x n matrix with entries in 0..MaxVal
SquareMatrices(n) ==
  {[NumberOfRows |-> n, NumberOfColumns |-> n, M |-> [k \in 1..(n * n) |-> Float(f[k])]] :
     f \in [1..(n * n) -> 0..MaxVal]}

Scalars == {Float(k) : k \in (-MaxVal)..MaxVal}

Outcome(op, scal, r) ==
  [op |-> op, scal |-> scal, panicked |-> r.panicked, err |-> r.err,
   M |-> r.M, L |-> r.L, U |-> r.U, val |-> r.val]

NoCall == Outcome("none", Zero, RetValue(Zero))

(***************************************************************************)
(* Storage of the values returned                                          *)
(***************************************************************************)
\* the slice array[low:high]
Header(array, low, high) == [array |-> array, low |-> low, high |-> high]

\* the buffers of the matrices r returns, in the order returned
Buffers(r) ==
  IF r.panicked \/ r.err # {} THEN <<>>
  ELSE LET ms == r.M \o r.L \o r.U IN [k \in 1..Len(ms) |-> ms[k].M]

\* a faulty Allocate: a buffer as long as the receiver's is not made, the
\* receiver's is handed out
AllocateOverReceiver(buffers) ==
  [heap |-> buffers,
   out |-> [k \in 1..Len(buffers) |->
              Header(IF Len(buffers[k]) = Len(A.M) THEN 0 ELSE k, 0, Len(buffers[k]))]]

\* make([]float64, n) for each buffer returned: a new backing array each,
\* the slice is all of it
Allocate(buffers) ==
  [heap |-> buffers,
   out |-> [k \in 1..Len(buffers) |-> Header(k, 0, Len(buffers[k]))]]

\* the slice of the receiver's backing array that SubMatrix keeps
Resliced(r, low, high) ==
  [heap |-> <<>>, out |-> IF r.panicked THEN <<>> ELSE <<Header(0, low, high)>>]

\* the backing array numbered k
Array(k) == IF k = 0 THEN A.M ELSE heap[k]

\* the elements a slice shows now
View(h) == SubSeq(Array(h.array), h.low + 1, h.high)

\* the value written through the values returned and into the receiver,
\* which no input and no result holds
Mark == fNeg(Float(MaxLen + 1))

NoStore ==
  /\ args = <<>>
  /\ heap = <<>>
  /\ out = <<>>
  /\ history = <<>>
  /\ calls = 0

NewtonCall(pc, init, f, n, precision) ==
  [pc |-> pc, init |-> init, f |-> f, n |-> n, precision |-> precision,
   x |-> Zero, previous |-> Zero, i |-> 0, met |-> FALSE, zero |-> Zero, err |-> 0]

NoNewton == newton = NewtonCall("idle", Zero, "1", 0, One)

\* the call op(a) on A, before any later write: it returns r, kept in store
\* (r and store are evaluated once each)
Return(op, scal, a, r, store) ==
  /\ calls = 0
  /\ \E v \in {r} : ret' = Outcome(op, scal, v)
  /\ args' = a
  /\ \E s \in {store} : heap' = s.heap /\ out' = s.out
  /\ UNCHANGED <<A, B, history, calls, newton>>

(***************************************************************************)
(* Spec: the arithmetic and Transpose, on every pair of ramp matrices      *)
(***************************************************************************)
Init ==
  /\ A \in RampMatrices
  /\ B \in RampMatrices
  /\ ret = NoCall
  /\ NoStore
  /\ NoNewton

CallMultiply ==
  Return("Multiply", Zero, <<>>, Multiply(A, B), Allocate(Buffers(ret')))

CallScalarMultiply ==
  \E scal \in Scalars :
    Return("ScalarMultiply", scal, <<>>, ScalarMultiply(A, scal), Allocate(Buffers(ret')))

CallNeg ==
  Return("Neg", Zero, <<>>, Neg(A), Allocate(Buffers(ret')))

CallAdd ==
  Return("Add", Zero, <<>>, Add(A, B), Allocate(Buffers(ret')))

CallSubtract ==
  Return("Subtract", Zero, <<>>, Subtract(A, B), Allocate(Buffers(ret')))

CallTranspose ==
  Return("Transpose", Zero, <<>>, Transpose(A), Allocate(Buffers(ret')))

\* tr, _ := A.Transpose(); tr.Transpose()
CallTransposeAgain ==
  /\ ret.op = "Transpose"
  /\ Return("TransposeTranspose", Zero, <<>>, Transpose(Deref(ret.M)), Allocate(Buffers(ret')))

Next ==
  \/ CallMultiply
  \/ CallScalarMultiply
  \/ CallNeg
  \/ CallAdd
  \/ CallSubtract
  \/ CallTranspose
  \/ CallTransposeAgain

Spec == Init /\ [][Next]_vars

(***************************************************************************)
(* SpecSquare: the square-only operations, on every square matrix with     *)
(* entries in 0..MaxVal and on the non-square ramp matrices                *)
(***************************************************************************)
InitSquare ==
  /\ A \in UNION {SquareMatrices(n) : n \in {k \in 1..MaxLen : k * k <= MaxLen}}
             \cup {x \in RampMatrices : ~IsSquare(x)}
  /\ B = NewMatrix(0, 0)
  /\ ret = NoCall
  /\ NoStore
  /\ NoNewton

CallTrace ==
  Return("Trace", Zero, <<>>, Trace(A), Allocate(Buffers(ret')))

CallLUDecomposition ==
  Return("LUDecomposition", Zero, <<>>, LUDecomposition(A), Allocate(Buffers(ret')))

CallDeterminant ==
  Return("Determinant", Zero, <<>>, Determinant(A), Allocate(Buffers(ret')))

CallInverse ==
  Return("Inverse", Zero, <<>>, Inverse(A), Allocate(Buffers(ret')))

NextSquare ==
  \/ CallTrace
  \/ CallLUDecomposition
  \/ CallDeterminant
  \/ CallInverse

SpecSquare == InitSquare /\ [][NextSquare]_vars

(***************************************************************************)
(* SpecStore: one matrix, a call on it, then writes through what the call *)
(* returned and writes into the matrix                                     *)
(***************************************************************************)
StoreShapes == {s \in Shapes : s[1] * s[2] <= MaxCells}

InitStore ==
  /\ A \in {Ramp(s[1], s[2], 1) : s \in StoreShapes}
  /\ B \in {Ramp(A.NumberOfRows, A.NumberOfColumns, 0),
            Ramp(A.NumberOfColumns, A.NumberOfRows, 0)}
  /\ ret = NoCall
  /\ NoStore
  /\ NoNewton

CallGetRow ==
  \E rowNumber \in 0..(A.NumberOfRows - 1) :
    Return("GetRow", Zero, <<rowNumber>>, RetValue(Zero),
           Allocate(<<GetRow(A, rowNumber)>>))

CallGetColumn ==
  \E colNumber \in 0..(A.NumberOfColumns - 1) :
    Return("GetColumn", Zero, <<colNumber>>, RetValue(Zero),
           Allocate(<<GetColumn(A, colNumber)>>))

\* every block that lies inside A
CallSubMatrix ==
  \E row \in 0..(A.NumberOfRows - 1), col \in 0..(A.NumberOfColumns - 1) :
    \E numberRows \in 1..(A.NumberOfRows - row), numberCols \in 1..(A.NumberOfColumns - col) :
      LET r == SubMatrix(A, row, col, numberRows, numberCols)
      IN Return("SubMatrix", Zero, <<row, col, numberRows, numberCols>>, r,
                Resliced(r, SubMatrixLow(A, row, col),
                         SubMatrixHigh(A, row, col, numberRows, numberCols)))

\* the caller stores Mark into every element of the i-th value returned
WriteReturned ==
  /\ calls < MaxWrites
  /\ \E i \in DOMAIN out :
       LET hit(k) == out[i].low < k /\ k <= out[i].high
       IN IF out[i].array = 0
          THEN /\ A' = [A EXCEPT !.M = [k \in DOMAIN A.M |-> IF hit(k) THEN Mark ELSE A.M[k]]]
               /\ heap' = heap
          ELSE /\ heap' = [heap EXCEPT ![out[i].array] =
                             [k \in DOMAIN heap[out[i].array] |->
                                IF hit(k) THEN Mark ELSE heap[out[i].array][k]]]
               /\ A' = A
  /\ calls' = calls + 1
  /\ UNCHANGED <<B, ret, args, out, history, newton>>

\* A.Set(row, column, Mark) after the call returned a value
WriteSet ==
  /\ calls < MaxWrites
  /\ out # <<>>
  /\ \E row \in 0..(A.NumberOfRows - 1), column \in 0..(A.NumberOfColumns - 1) :
       A' = Set(A, row, column, Mark)
  /\ calls' = calls + 1
  /\ UNCHANGED <<B, ret, args, heap, out, history, newton>>

\* A.SetRow(rowNumber, a row of Mark) after the call returned a value
WriteSetRow ==
  /\ calls < MaxWrites
  /\ out # <<>>
  /\ \E rowNumber \in 0..(A.NumberOfRows - 1) :
       A' = SetRow(A, rowNumber, [c \in 1..A.NumberOfColumns |-> Mark])
  /\ calls' = calls + 1
  /\ UNCHANGED <<B, ret, args, heap, out, history, newton>>

NextStore ==
  \/ CallGetRow
  \/ CallGetColumn
  \/ CallSubMatrix
  \/ CallMultiply
  \/ CallScalarMultiply
  \/ CallNeg
  \/ CallAdd
  \/ CallSubtract
  \/ CallTranspose
  \/ CallLUDecomposition
  \/ CallInverse
  \/ WriteReturned
  \/ WriteSet
  \/ WriteSetRow

SpecStore == InitStore /\ [][NextStore]_vars

(***************************************************************************)
(* SpecRows: a matrix from NewMatrix, SetRow calls on it, GetRow           *)
(***************************************************************************)
\* the rows of length cols handed to SetRow: base+1, base+2, ...
RowValues(cols) == {[c \in 1..cols |-> Float(base + c)] : base \in 0..MaxVal}

InitRows ==
  /\ A \in {NewMatrix(s[1], s[2]) : s \in StoreShapes}
  /\ B = NewMatrix(0, 0)
  /\ ret = NoCall
  /\ NoStore
  /\ NoNewton

\* A.SetRow(rowNumber, row), which returns A itself
CallSetRow ==
  /\ Len(history) < MaxCalls
  /\ \E rowNumber \in 0..(A.NumberOfRows - 1), row \in RowValues(A.NumberOfColumns) :
       LET m == SetRow(A, rowNumber, row)
       IN /\ A' = m
          /\ ret' = Outcome("SetRow", Zero, RetMatrix(m))
          /\ args' = <<rowNumber>>
          /\ out' = <<Header(0, 0, Len(m.M))>>
          /\ history' = Append(history, <<rowNumber, row>>)
  /\ heap' = <<>>
  /\ UNCHANGED <<B, calls, newton>>

NextRows ==
  \/ CallSetRow
  \/ CallGetRow

SpecRows == InitRows /\ [][NextRows]_vars

(***************************************************************************)
(* SpecNewton: one call of Newton, a step per statement of its loop        *)
(***************************************************************************)
Functions == {"1", "x-1", "x*x-1"}

\* the precisions 1/(k*k), whose square root is 1/k
Precisions == {fDiv(One, Float(k * k)) : k \in 1..(MaxVal + 1)}

InitNewton ==
  /\ A = NewMatrix(0, 0)
  /\ B = NewMatrix(0, 0)
  /\ ret = NoCall
  /\ NoStore
  /\ newton \in {NewtonCall("call", Float(init), f, n, precision) :
                   init \in 0..(MaxVal + 1), f \in Functions,
                   n \in 0..MaxIter, precision \in Precisions}

\* if n == 0 { n = 1000 }; x := init; i = 0
NewtonEnter ==
  /\ newton.pc = "call"
  /\ newton' = [newton EXCEPT
                  !.n = IF newton.n = 0 THEN DefaultIterations ELSE newton.n,
                  !.x = newton.init,
                  !.i = 0,
                  !.pc = "loop"]
  /\ UNCHANGED <<A, B, ret, args, heap, out, history, calls>>

\* one turn of the loop: break leaves i as it is, otherwise i++
NewtonIterate ==
  /\ newton.pc = "loop"
  /\ newton.i < newton.n
  /\ LET x == NewtonStep(newton.x, newton.f, newton.precision)
         stop == NewtonStop(x, newton.x, newton.precision)
     IN newton' = [newton EXCEPT
                     !.previous = newton.x,
                     !.x = x,
                     !.met = stop,
                     !.i = IF stop THEN newton.i ELSE newton.i + 1,
                     !.pc = IF stop THEN "after" ELSE "loop"]
  /\ UNCHANGED <<A, B, ret, args, heap, out, history, calls>>

\* the loop condition i < n fails
NewtonExhaust ==
  /\ newton.pc = "loop"
  /\ newton.i >= newton.n
  /\ newton' = [newton EXCEPT !.pc = "after"]
  /\ UNCHANGED <<A, B, ret, args, heap, out, history, calls>>

\* if i == (n - 1) { return 0.0, -1 }; return x, 0
NewtonReturn ==
  /\ newton.pc = "after"
  /\ LET status == NewtonStatus(newton.i, newton.n)
     IN newton' = [newton EXCEPT
                     !.zero = IF status = NewtonFailed THEN Zero ELSE newton.x,
                     !.err = status,
                     !.pc = "done"]
  /\ UNCHANGED <<A, B, ret, args, heap, out, history, calls>>

NextNewton ==
  \/ NewtonEnter
  \/ NewtonIterate
  \/ NewtonExhaust
  \/ NewtonReturn

SpecNewton == InitNewton /\ [][NextNewton]_vars

(***************************************************************************)
(* Vocabulary of the properties, defined from the mathematics and not     *)
(* from the operators above.                                               *)
(***************************************************************************)
Rows(x) == x.NumberOfRows

Cols(x) == x.NumberOfColumns

\* element (r, c) of x in row-major storage, r and c from 0
Elem(x, r, c) == x.M[r * Cols(x) + c + 1]

HasShape(x, rows, cols) ==
  Rows(x) = rows /\ Cols(x) = cols /\ Len(x.M) = rows * cols

EqualShape(x, y) == Rows(x) = Rows(y) /\ Cols(x) = Cols(y)

\* sum over k in from..Cols(x)-1 of x(i, k) * y(k, j)
RECURSIVE DotProduct(_, _, _, _, _)
DotProduct(x, y, i, j, from) ==
  IF from >= Cols(x) THEN Zero
  ELSE fAdd(fMul(Elem(x, i, from), Elem(y, from, j)), DotProduct(x, y, i, j, from + 1))

\* z is the matrix product of x and y
IsProduct(z, x, y) ==
  /\ HasShape(z, Rows(x), Cols(y))
  /\ \A i \in 0..(Rows(x) - 1), j \in 0..(Cols(y) - 1) :
       Elem(z, i, j) = DotProduct(x, y, i, j, 0)

RECURSIVE SumOver(_, _, _, _)

\* the determinant of the rows from `row` on and the columns `cols` of an
\* integer matrix, by Laplace expansion along its first row
RECURSIVE Laplace(_, _, _)
Laplace(x, row, cols) ==
  IF cols = {} THEN 1 ELSE SumOver(x, row, cols, cols)

SumOver(x, row, cols, todo) ==
  IF todo = {} THEN 0
  ELSE LET c == CHOOSE d \in todo : TRUE
           sign == IF Cardinality({d \in cols : d < c}) % 2 = 0 THEN 1 ELSE -1
       IN sign * Elem(x, row, c)[1] * Laplace(x, row + 1, cols \ {c})
          + SumOver(x, row, cols, todo \ {c})

\* the k-th leading principal minor of x
LeadingMinor(x, k) == Laplace(x, 0, 0..(k - 1))

NonSingular(x) == Rows(x) = Cols(x) /\ LeadingMinor(x, Rows(x)) # 0

HasZeroRow(x) ==
  \E r \in 0..(Rows(x) - 1) : \A c \in 0..(Cols(x) - 1) : Elem(x, r, c) = Zero

Returned(op) == ret.op = op /\ ~ret.panicked /\ ret.err = {}

\* no call writes to its operands
OperandsUnchanged == A' = A /\ B' = B

(***************************************************************************)
(* Claims about the arithmetic (checked under Spec)                        *)
(***************************************************************************)

\* C1: for A and B of the same shape rows x cols, Add(A, B) returns without
\* error a rows x cols matrix whose element (r, c) is A(r, c) + B(r, c).
\* Add allocates its result as cols x rows, so the claim fails on every
\* non-square shape.
C1_AddIsElementwise ==
  (ret.op = "Add" /\ EqualShape(A, B)) =>
    /\ Returned("Add")
    /\ ret.M # <<>>
    /\ HasShape(Deref(ret.M), Rows(A), Cols(A))
    /\ \A r \in 0..(Rows(A) - 1), c \in 0..(Cols(A) - 1) :
         Elem(Deref(ret.M), r, c) = fAdd(Elem(A, r, c), Elem(B, r, c))

\* the scalar of the last ScalarMultiply or Neg call
ScalarOf(r) == IF r.op = "Neg" THEN Float(-1) ELSE r.scal

\* C2: ScalarMultiply(A, k) returns a rows x cols matrix whose element at
\* every position i is A[i] * k, and Neg(A) is that result for k = -1.
\* ScalarMultiply scales the zeros of its fresh result, never reading A.
C2_ScalarMultiplyScales ==
  ret.op \in {"ScalarMultiply", "Neg"} =>
    /\ ~ret.panicked
    /\ ret.M # <<>>
    /\ HasShape(Deref(ret.M), Rows(A), Cols(A))
    /\ \A i \in 1..Len(A.M) : Deref(ret.M).M[i] = fMul(A.M[i], ScalarOf(ret))

\* C3: for A and B of the same shape, Subtract(A, B) returns without error
\* a matrix of A's shape whose element (r, c) is A(r, c) - B(r, c).
\* Subtract adds Neg(B), which is a zero matrix of the transposed shape.
C3_SubtractIsDifference ==
  (ret.op = "Subtract" /\ EqualShape(A, B)) =>
    /\ Returned("Subtract")
    /\ ret.M # <<>>
    /\ HasShape(Deref(ret.M), Rows(A), Cols(A))
    /\ \A r \in 0..(Rows(A) - 1), c \in 0..(Cols(A) - 1) :
         Elem(Deref(ret.M), r, c) = fSub(Elem(A, r, c), Elem(B, r, c))

\* C4: when A.cols = B.rows, Multiply(A, B) returns without error the
\* A.rows x B.cols matrix whose element (i, j) is the sum over k of
\* A(i, k) * B(k, j).
C4_MultiplyIsProduct ==
  (ret.op = "Multiply" /\ Cols(A) = Rows(B)) =>
    /\ Returned("Multiply")
    /\ ret.M # <<>>
    /\ IsProduct(Deref(ret.M), A, B)

\* a 2x3 by 3x2 product was returned
C4_Witness ==
  /\ Returned("Multiply")
  /\ HasShape(A, 2, 3) /\ HasShape(B, 3, 2)
  /\ ret.M # <<>>
  /\ IsProduct(Deref(ret.M), A, B)
  /\ Elem(Deref(ret.M), 1, 1) # Zero

\* what C5 says of the value returned
C5_Errors ==
  /\ (ret.op = "Multiply" /\ Cols(A) # Rows(B)) =>
       ~ret.panicked /\ ret.err = {errorCannotMultiply} /\ ret.M = <<>>
  /\ (ret.op \in {"Add", "Subtract"} /\ ~EqualShape(A, B)) =>
       ~ret.panicked /\ ret.err = {errorCannotAdd} /\ ret.M = <<>>

\* C5: Multiply returns its dimension error and no matrix when
\* A.cols # B.rows, Add and Subtract return theirs and no matrix when the
\* shapes differ, and every call leaves both operands unchanged.
C5_DimensionMismatch == []C5_Errors /\ [][OperandsUnchanged]_vars

\* Subtract refused a 2x1 and a 1x2 matrix
C5_Witness ==
  /\ ret.op = "Subtract"
  /\ HasShape(A, 2, 1) /\ HasShape(B, 1, 2)
  /\ ret.err = {errorCannotAdd}
  /\ ret.M = <<>>

(***************************************************************************)
(* Claims about the square-only operations (checked under SpecSquare)      *)
(***************************************************************************)

\* what C6 says of the value returned
C6_Rejected ==
  (ret.op \in {"Trace", "LUDecomposition", "Determinant", "Inverse"}
     /\ Rows(A) # Cols(A)) =>
    /\ ~ret.panicked
    /\ ret.err = {errorNonSquareMatrix}
    /\ ret.val = Zero
    /\ ret.M = <<>> /\ ret.L = <<>> /\ ret.U = <<>>

\* C6: Trace, LUDecomposition, Determinant and Inverse on a matrix with
\* rows # cols return the non-square error with no result (0.0 or nil) and
\* leave the matrix unchanged.
C6_NonSquareRejected == []C6_Rejected /\ [][OperandsUnchanged]_vars

\* Inverse refused a 2x3 matrix
C6_Witness ==
  /\ ret.op = "Inverse"
  /\ HasShape(A, 2, 3)
  /\ ret.err = {errorNonSquareMatrix}
  /\ ret.M = <<>>

\* C7: for every non-singular square A, Inverse(A) returns without error a
\* matrix X with A * X = Identity(n), also when a pivot U[i][i] of the
\* no-pivot LU is zero.  On such a matrix the decomposition divides by zero
\* and the matrix returned holds NaN.
C7_InverseOfNonSingular ==
  (ret.op = "Inverse" /\ NonSingular(A)) =>
    /\ Returned("Inverse")
    /\ ret.M # <<>>
    /\ HasShape(Deref(ret.M), Rows(A), Rows(A))
    /\ \A i \in 0..(Rows(A) - 1), j \in 0..(Rows(A) - 1) :
         DotProduct(A, Deref(ret.M), i, j, 0) = IF i = j THEN One ELSE Zero

\* C8: for every square matrix with a row of zeros, whichever row it is,
\* Inverse returns the Singular error and no matrix.  With the zeros in a
\* row that has rows below it the determinant computed is NaN, which is
\* not == 0.0.
C8_ZeroRowIsSingular ==
  (ret.op = "Inverse" /\ Rows(A) = Cols(A) /\ HasZeroRow(A)) =>
    /\ ~ret.panicked
    /\ ret.err = {errorNotInversible}
    /\ ret.M = <<>>

\* L is lower-triangular with a unit diagonal, U is upper-triangular and
\* L * U is x
IsLUOf(l, u, x) ==
  /\ HasShape(l, Rows(x), Rows(x))
  /\ HasShape(u, Rows(x), Rows(x))
  /\ \A i \in 0..(Rows(x) - 1), j \in 0..(Rows(x) - 1) :
       /\ i = j => Elem(l, i, j) = One
       /\ i < j => Elem(l, i, j) = Zero
       /\ i > j => Elem(u, i, j) = Zero
       /\ DotProduct(l, u, i, j, 0) = Elem(x, i, j)

LUReturned ==
  /\ Returned("LUDecomposition")
  /\ ret.L # <<>> /\ ret.U # <<>>
  /\ IsLUOf(Deref(ret.L), Deref(ret.U), A)

\* C9 as stated: for every square non-singular A, LUDecomposition(A)
\* returns a unit lower-triangular L and an upper-triangular U with
\* L * U = A.
C9_LUOfNonSingular ==
  (ret.op = "LUDecomposition" /\ NonSingular(A)) => LUReturned

\* every leading principal minor of x is non-zero: x is non-singular and
\* the recursion without pivoting meets no zero pivot
MinorsNonZero(x) ==
  Rows(x) = Cols(x) /\ \A k \in 1..Rows(x) : LeadingMinor(x, k) # 0

\* C9 amended: for every square A whose leading principal minors are all
\* non-zero, LUDecomposition(A) returns a unit lower-triangular L and an
\* upper-triangular U with L * U = A.
C9_LUOfMinorsNonZero ==
  (ret.op = "LUDecomposition" /\ MinorsNonZero(A)) => LUReturned

\* a 3x3 matrix was decomposed, with a non-zero L(2, 1) below the diagonal
C9_Witness ==
  /\ LUReturned
  /\ HasShape(A, 3, 3)
  /\ MinorsNonZero(A)
  /\ Elem(Deref(ret.L), 2, 0) # Zero
  /\ Elem(Deref(ret.L), 2, 1) # Zero

(***************************************************************************)
(* Claims about Transpose (checked under Spec)                             *)
(***************************************************************************)

\* what C10 says of the values returned
C10_Transposed ==
  /\ ret.op = "Transpose" =>
       /\ Returned("Transpose")
       /\ ret.M # <<>>
       /\ HasShape(Deref(ret.M), Cols(A), Rows(A))
       /\ \A r \in 0..(Rows(A) - 1), c \in 0..(Cols(A) - 1) :
            Elem(Deref(ret.M), c, r) = Elem(A, r, c)
  /\ ret.op = "TransposeTranspose" =>
       /\ Returned("TransposeTranspose")
       /\ ret.M = <<A>>

\* C10: for A of shape rows x cols, square or not, Transpose(A) returns a
\* cols x rows matrix T with T(c, r) = A(r, c), leaves A unchanged, and
\* Transpose(Transpose(A)) is A.
C10_TransposeIsInvolution == []C10_Transposed /\ [][OperandsUnchanged]_vars

\* a 3x4 matrix came back from two transpositions by cycle following
C10_Witness ==
  /\ ret.op = "TransposeTranspose"
  /\ HasShape(A, 3, 4)
  /\ ret.M = <<A>>
  /\ Elem(A, 0, 1) # Elem(A, 1, 0)

(***************************************************************************)
(* Claims about Determinant (checked under SpecSquare)                     *)
(***************************************************************************)

\* C11: for every square A, Determinant(A) returns the product of the
\* diagonal entries U[i][i] of A's LU decomposition, and that value is the
\* determinant of A (1 for an identity).  When a pivot is zero the
\* decomposition divides by it and the product is NaN.
C11_DeterminantIsDeterminant ==
  (ret.op = "Determinant" /\ Rows(A) = Cols(A)) =>
    /\ Returned("Determinant")
    /\ ret.val = DiagonalProduct(Deref(LUDecomposition(A).U), Rows(A))
    /\ ret.val = Float(LeadingMinor(A, Rows(A)))

(***************************************************************************)
(* Claims about storage (checked under SpecStore and SpecRows)             *)
(***************************************************************************)
\* the matrices the last call returned
ReturnedMatrices ==
  LET ms == ret.M \o ret.L \o ret.U IN {ms[k] : k \in DOMAIN ms}

\* what each value returned shows now
Values == [i \in DOMAIN out |-> View(out[i])]

\* the operations said to copy
CopyingOps ==
  {"GetRow", "GetColumn", "Multiply", "Add", "ScalarMultiply", "Neg",
   "Transpose", "LUDecomposition", "Inverse"}

\* the row the latest SetRow(r, row) handed over, zeros when there was none
LastSetRow(r) ==
  LET ks == {k \in DOMAIN history : history[k][1] = r}
  IN IF ks = {} THEN [c \in 1..Cols(A) |-> Zero]
     ELSE history[CHOOSE k \in ks : \A l \in ks : l <= k][2]

\* C12: for row + nRows <= rows and col + nCols <= cols,
\* SubMatrix(row, col, nRows, nCols) returns an nRows x nCols matrix S
\* with S(i, j) = A(row + i, col + j); on the 3x3 matrix 1..9,
\* SubMatrix(1, 1, 2, 2) is [5 6; 8 9].  SubMatrix slices the flat buffer
\* from the block's first offset: the slice runs past the buffer (a panic)
\* whenever the block reaches the last row, and row i of S is read nCols,
\* not cols, after row i - 1.
C12_SubMatrixIsBlock ==
  (ret.op = "SubMatrix" /\ calls = 0) =>
    /\ Returned("SubMatrix")
    /\ ret.M # <<>>
    /\ Rows(Deref(ret.M)) = args[3]
    /\ Cols(Deref(ret.M)) = args[4]
    /\ \A i \in 0..(args[3] - 1), j \in 0..(args[4] - 1) :
         Elem(Deref(ret.M), i, j) = Elem(A, args[1] + i, args[2] + j)

\* C13: after any sequence of SetRow calls, GetRow(r) returns for every
\* row r the values of the latest SetRow(r, v), zeros if r was never set;
\* so a SetRow on one row changes no other row.
C13_GetRowReturnsLastSetRow ==
  /\ \A r \in 0..(Rows(A) - 1) : GetRow(A, r) = LastSetRow(r)
  /\ ret.op = "GetRow" => Values[1] = LastSetRow(args[1])

\* a row of a matrix of several rows and columns was set twice, to
\* different values, and then read
C13_Witness ==
  /\ ret.op = "GetRow"
  /\ Rows(A) >= 2 /\ Cols(A) >= 2
  /\ Len(history) >= 2
  /\ history[1][1] = history[2][1]
  /\ history[1][2] # history[2][2]
  /\ args[1] = history[2][1]
  /\ args[1] > 0

\* C15: every matrix created or returned, SubMatrix's included, and every
\* matrix after Set and SetRow calls, has a buffer of exactly rows * cols
\* elements, element (r, c) at offset r * cols + c.  The buffer SubMatrix
\* returns has nRows * cols + nCols elements.
C15_StorageInvariant ==
  \A x \in {A, B} \cup ReturnedMatrices :
    /\ Len(x.M) = Rows(x) * Cols(x)
    /\ \A r \in 0..(Rows(x) - 1), c \in 0..(Cols(x) - 1) : r * Cols(x) + c < Len(x.M)

\* C16: what GetRow, GetColumn, Multiply, Add, ScalarMultiply, Neg,
\* Transpose, LUDecomposition and Inverse return shares no storage with the
\* receiver: no slice returned is on the receiver's backing array, a write
\* through a value returned changes neither operand, a Set or SetRow on the
\* receiver changes no value returned, and the call itself changes neither
\* operand.
C16_NoSharedStorage ==
  /\ [](ret.op \in CopyingOps => \A i \in DOMAIN out : out[i].array # 0)
  /\ [][ /\ (ret'.op \in CopyingOps /\ calls' = 0) => OperandsUnchanged
         /\ (ret.op \in CopyingOps /\ WriteReturned) => OperandsUnchanged
         /\ (ret.op \in CopyingOps /\ (WriteSet \/ WriteSetRow)) =>
              Values' = Values ]_vars

\* after LUDecomposition returned, U was written through and A was written
C16_Witness ==
  /\ ret.op = "LUDecomposition"
  /\ Len(out) = 2
  /\ calls = 2
  /\ \E k \in DOMAIN Values[2] : Values[2][k] = Mark
  /\ \E k \in DOMAIN A.M : A.M[k] = Mark

(***************************************************************************)
(* Claims about Newton (checked under SpecNewton)                          *)
(***************************************************************************)

\* C14: Newton returns 0 with the approximated zero exactly when some
\* iteration met |x - previous| <= precision, and -1 exactly when all n
\* iterations (1000 when 0 is passed) ran without meeting it.  The test
\* after the loop is i == n - 1: true when the last iteration met the
\* condition, false when the loop ran out.
C14_StatusTellsConvergence ==
  newton.pc = "done" =>
    /\ newton.err = 0 <=> newton.met
    /\ newton.err = NewtonFailed <=> (~newton.met /\ newton.i = newton.n)
    /\ newton.err = 0 => newton.zero = newton.x

=============================================================================
